---- MODULE Spec2Model ----
(***************************************************************************)
(* Model of the GraphQL/MQTT bridge of src/server/main.py: the process-    *)
(* wide message store, the shared bounded delivery queue, the broker       *)
(* callback (on_message), the mutations and the live subscription loops.   *)
(*                                                                         *)
(* Threads: the broker client's network thread runs on_message; the        *)
(* event-loop thread runs the resolvers and the subscription generators.   *)
(* A subscription iteration has no await between queue.get() returning and *)
(* the yield / put_nowait, so only the network thread can run in between:  *)
(* `held` is the message an iteration has taken and not yet dispatched.    *)
(***************************************************************************)
EXTENDS Integers, Sequences, FiniteSets, TLC

VARIABLES
    messages_store,     \* main.py:44   list of Message, in append order
    queue,              \* main.py:45   mqtt_messages_queue, FIFO
    held,               \* <<>> or <<[stream, msg]>>: local `message` of a loop iteration
    streams,            \* per live subscription: [state, filter]
    yielded,            \* per live subscription: the Messages it has yielded, in order
    nextId,             \* number of uuid4() values generated so far
    clock,              \* datetime.now(), in microsecond ticks
    connected,          \* client.is_connected()
    subscribed_topics,  \* MQTTHandler.subscribed_topics (the registry)
    broker_subs,        \* topic filters the broker holds for this client
    inflight,           \* payloads the broker has sent, not yet handled by on_message
    result,             \* outcome of the latest API call handled by the event loop
    topics_lock,        \* main.py:59  holder of MQTTHandler._topics_lock, or "free"
    net_task,           \* the callback the network thread is running, and its locals
    loop_task,          \* the resolver the event-loop thread is running, and its locals
    activity            \* the topic-activity stream: its state, locals and output

vars == <<messages_store, queue, held, streams, yielded, nextId, clock, connected,
          subscribed_topics, broker_subs, inflight, result, topics_lock, net_task,
          loop_task, activity>>

----------------------------------------------------------------------------
(* Bounds of the model *)

\* capacity of the delivery queue in the model (1000 in main.py:45)
QueueCap == 2
\* the number of uuid4() values that may be generated
MaxIds == 3
\* the number of Messages the store may hold
MaxStore == 3
\* the last clock tick
MaxClock == 1
\* largest `limit` argument tried for query_topic
MaxLimit == 3
\* the number of payloads of other clients the broker may have in flight
MaxInflight == 2

\* clock ticks per second: isoformat() prints the sub-second part only if non-zero
TicksPerSec == 2

----------------------------------------------------------------------------
(* Values *)

Topics == {"test/messages", "sensors/temperature", "alerts/system"}
DefaultFilters == {"test/messages", "sensors/+"}
ALL == "*all*"
Streams == {1, 2}
NoSender == "None"

\* the broker's topic-filter matching, for the filters the server uses
Matches(filter, topic) ==
    \/ filter = topic
    \/ filter = "sensors/+" /\ topic = "sensors/temperature"

BrokerDelivers(topic) == \E f \in broker_subs : Matches(f, topic)

Message(id, topic, content, timestamp, sender) ==
    [id |-> id, topic |-> topic, content |-> content,
     timestamp |-> timestamp, sender |-> sender]

Min(a, b) == IF a <= b THEN a ELSE b

----------------------------------------------------------------------------
(* datetime.isoformat / datetime.fromisoformat *)

\* "…:SS" when the microsecond part is 0, "…:SS.ffffff" otherwise
isoformat(t) ==
    IF t % TicksPerSec = 0 THEN <<t \div TicksPerSec>>
    ELSE <<t \div TicksPerSec, t % TicksPerSec>>

IsoParses(text) == Len(text) \in {1, 2}

fromisoformat(text) ==
    IF Len(text) = 1 THEN text[1] * TicksPerSec
    ELSE text[1] * TicksPerSec + text[2]

----------------------------------------------------------------------------
(* Payloads on the wire.  kind:                                            *)
(*   "object"  a JSON object; `keys` says whether it has all of content,   *)
(*             sender, id, timestamp and `extra` whether it has more keys  *)
(*   "json"    valid JSON that is not an object (a number, a list, ...)    *)
(*   "text"    text that is not JSON                                       *)
(*   "bytes"   bytes that are not valid UTF-8                              *)
(* `text` is the decoded payload text used as content on the plain paths.  *)

Payload(kind, keys, extra, text, content, sender, id, timestamp) ==
    [kind |-> kind, keys |-> keys, extra |-> extra, text |-> text,
     content |-> content, sender |-> sender, id |-> id, timestamp |-> timestamp]

\* (a payload that lost its "id" key on the way)
json_dumps_without_id(content, sender, id, timestamp) ==
    Payload("object", FALSE, FALSE, "{json}", content, sender, id, timestamp)

\* json.dumps(message_payload) of send_to_topic
json_dumps(content, sender, id, timestamp) ==
    Payload("object", TRUE, FALSE, "{json}", content, sender, id, timestamp)

PlainText(text) == Payload("text", FALSE, FALSE, text, "", "", 0, <<>>)

----------------------------------------------------------------------------
(* asyncio.Queue(maxsize=QueueCap) *)

\* (a capacity test that is one too late)
full_off_by_one(q) == Len(q) > QueueCap

full(q) == Len(q) >= QueueCap

\* (a queue that never refuses an item)
put_nowait_unbounded(q, m) == Append(q, m)

\* (a queue that makes room by dropping its oldest item)
put_nowait_evicting(q, m) == IF full(q) THEN Append(Tail(q), m) ELSE Append(q, m)

\* (a queue that hands out its newest item first)
put_nowait_front(q, m) == IF full(q) THEN q ELSE <<m>> \o q

\* put_nowait: appends, or raises QueueFull (every caller catches it and drops the item)
put_nowait(q, m) == IF full(q) THEN q ELSE Append(q, m)

----------------------------------------------------------------------------
(* Results of API calls, as the caller sees them *)

\* `topic` is the call's topic argument, `msgs` the Messages and `count` the number
\* it returns (for query_topic, `count` is the limit argument); `publish` is what
\* client.publish did in a send_to_topic call
Returned(op, topic, msgs, count) ==
    [op |-> op, topic |-> topic, ok |-> TRUE, msgs |-> msgs, count |-> count,
     publish |-> ""]
Raised(op, topic, outcome) ==
    [op |-> op, topic |-> topic, ok |-> FALSE, msgs |-> <<>>, count |-> 0,
     publish |-> outcome]

\* no handler or resolver is in progress on a thread
NoTask == [pc |-> "idle"]

\* no topic-activity stream has been opened
NoActivity == [state |-> "idle"]

----------------------------------------------------------------------------
Init ==
    /\ messages_store = <<>>
    /\ queue = <<>>
    /\ held = <<>>
    /\ streams = [s \in Streams |-> [state |-> "idle", filter |-> ALL]]
    /\ yielded = [s \in Streams |-> <<>>]
    /\ nextId = 0
    /\ clock = 0
    /\ connected = FALSE
    /\ subscribed_topics = DefaultFilters
    /\ broker_subs = {}
    /\ inflight = <<>>
    /\ result = Returned("none", "", <<>>, 0)
    /\ topics_lock = "free"
    /\ net_task = NoTask
    /\ loop_task = NoTask
    /\ activity = NoActivity

----------------------------------------------------------------------------
\* the event-loop thread is free: no subscription iteration is between get and dispatch
LoopIdle == held = <<>>

----------------------------------------------------------------------------
(* Connection events (network thread) *)

\* on_connect: re-subscribe every topic of the registry snapshot
on_connect ==
    /\ ~connected
    /\ connected' = TRUE
    /\ broker_subs' = broker_subs \cup subscribed_topics
    /\ UNCHANGED <<messages_store, queue, held, streams, yielded, nextId, clock,
                   subscribed_topics, inflight, result, topics_lock, net_task, loop_task,
                   activity>>

\* the connection drops; a clean-session client loses its broker subscriptions
on_disconnect ==
    /\ connected
    /\ connected' = FALSE
    /\ broker_subs' = {}
    /\ UNCHANGED <<messages_store, queue, held, streams, yielded, nextId, clock,
                   subscribed_topics, inflight, result, topics_lock, net_task, loop_task,
                   activity>>

\* datetime.now() advances
Tick ==
    /\ clock < MaxClock
    /\ clock' = clock + 1
    /\ UNCHANGED <<messages_store, queue, held, streams, yielded, nextId, connected,
                   subscribed_topics, broker_subs, inflight, result,
                   topics_lock, net_task, loop_task, activity>>

----------------------------------------------------------------------------
(* MQTTHandler.on_message *)

\* the payload takes the structured branch (main.py:80)
IsStructured(p) == p.kind = "object" /\ p.keys

\* the handler raises before building a Message: the outer except swallows it
DecodeRaises(p) ==
    \/ p.kind = "bytes"
    \/ IsStructured(p) /\ ~IsoParses(p.timestamp)

\* the Message on_message builds from a payload it can decode
DecodedMessage(topic, p, freshId, now) ==
    IF IsStructured(p)
    THEN Message(p.id, topic, p.content, fromisoformat(p.timestamp), p.sender)
    ELSE Message(freshId, topic, p.text, now, "external_client")

\* the handler, called by the network thread with one received payload
on_message(topic, p) ==
    LET message == DecodedMessage(topic, p, nextId + 1, clock)
    IN  IF DecodeRaises(p)
        THEN UNCHANGED <<messages_store, queue, nextId>>
        ELSE /\ Len(messages_store) < MaxStore
             /\ ~IsStructured(p) => nextId < MaxIds
             /\ nextId' = IF IsStructured(p) THEN nextId ELSE nextId + 1
             /\ messages_store' = Append(messages_store, message)
             /\ queue' = put_nowait(queue, message)

\* the network thread handles the oldest payload the broker has sent to this
\* client (the echo of one of its own publishes, or another client's publish)
EchoArrives ==
    /\ inflight # <<>>
    /\ on_message(Head(inflight).topic, Head(inflight).payload)
    /\ inflight' = Tail(inflight)
    /\ UNCHANGED <<held, streams, yielded, clock, connected, subscribed_topics,
                   broker_subs, result, topics_lock, net_task, loop_task, activity>>

\* another client publishes `p` on `topic`: the broker sends it to this client
ExternalPublishes(topic, p) ==
    /\ connected
    /\ BrokerDelivers(topic)
    /\ Len(inflight) < MaxInflight
    /\ inflight' = Append(inflight, [topic |-> topic, payload |-> p])
    /\ UNCHANGED <<messages_store, queue, held, streams, yielded, nextId, clock,
                   connected, subscribed_topics, broker_subs, result, topics_lock,
                   net_task, loop_task, activity>>

\* another client publishes `p` on `topic` and the handler runs on it at once
ExternalArrives(topic, p) ==
    /\ connected
    /\ BrokerDelivers(topic)
    /\ on_message(topic, p)
    /\ UNCHANGED <<inflight, held, streams, yielded, clock, connected,
                   subscribed_topics, broker_subs, result,
                   topics_lock, net_task, loop_task, activity>>

----------------------------------------------------------------------------
(* MQTTHandler.publish_message and Mutation.send_to_topic *)

\* what client.publish does: "success", "no_conn", "rejected" (another rc), "exception"
PublishOutcomes == {"success", "no_conn", "rejected", "exception"}

\* (a publish that reports success whatever the client returned)
publish_message_unchecked(outcome) == TRUE

\* publish_message: True only for rc == MQTT_ERR_SUCCESS; an exception gives False
publish_message(outcome) == outcome = "success"

\* (a sender that is passed on as given, None included)
SenderAsGiven(sender) == sender

\* `input.sender or "graphql_client"`
SenderOrDefault(sender) == IF sender = NoSender THEN "graphql_client" ELSE sender

send_to_topic(topic, content, sender, outcome) ==
    /\ LoopIdle
    /\ nextId < MaxIds
    /\ outcome = "success" => connected
    /\ outcome = "no_conn" => ~connected
    /\ LET id == nextId + 1
           stamp == isoformat(clock)
           who == SenderOrDefault(sender)
           payload == json_dumps(content, who, id, stamp)
           success == publish_message(outcome)
           echoed == outcome = "success" /\ BrokerDelivers(topic)
           message == Message(id, topic, content, fromisoformat(stamp), who)
       IN  /\ inflight' = IF echoed
                          THEN Append(inflight, [topic |-> topic, payload |-> payload])
                          ELSE inflight
           /\ IF success
              THEN /\ Len(messages_store) < MaxStore
                   /\ nextId' = id
                   /\ messages_store' = Append(messages_store, message)
                   /\ queue' = put_nowait(queue, message)
                   /\ result' = [Returned("send_to_topic", topic, <<message>>, 0)
                                   EXCEPT !.publish = outcome]
              ELSE \* the uuid never left the call: the next one is as fresh
                   /\ result' = Raised("send_to_topic", topic, outcome)
                   /\ UNCHANGED <<messages_store, queue, nextId>>
    /\ UNCHANGED <<held, streams, yielded, clock, connected, subscribed_topics,
                   broker_subs, topics_lock, net_task, loop_task, activity>>

----------------------------------------------------------------------------
(* Mutation.create_test_data *)

test_messages(firstId, now) ==
    << Message(firstId, "test/messages", "Hello from test topic", now, "test_user"),
       Message(firstId + 1, "sensors/temperature", "25.5C", now, "sensor_01"),
       Message(firstId + 2, "alerts/system", "System online", now, "system") >>

RECURSIVE put_each(_, _)
put_each(q, msgs) ==
    IF msgs = <<>> THEN q ELSE put_each(put_nowait(q, Head(msgs)), Tail(msgs))

create_test_data ==
    /\ LoopIdle
    /\ nextId + 3 <= MaxIds
    /\ Len(messages_store) + 3 <= MaxStore
    /\ LET new == test_messages(nextId + 1, clock)
       IN  /\ nextId' = nextId + 3
           /\ messages_store' = messages_store \o new
           /\ queue' = put_each(queue, new)
           /\ result' = Returned("create_test_data", "", <<>>, Len(new))
    /\ UNCHANGED <<held, streams, yielded, clock, connected, subscribed_topics,
                   broker_subs, inflight, topics_lock, net_task, loop_task, activity>>

----------------------------------------------------------------------------
(* Query.query_topic *)

\* [msg for msg in messages_store if msg.topic == topic]
topic_messages(store, topic) == SelectSeq(store, LAMBDA m : m.topic = topic)

\* (an insertion that sorts ascending)
InsertAsc(sorted, x) ==
    LET p == Cardinality({i \in 1..Len(sorted) : sorted[i].timestamp <= x.timestamp})
    IN  SubSeq(sorted, 1, p) \o <<x>> \o SubSeq(sorted, p + 1, Len(sorted))

\* one insertion of a stable descending sort: x goes after every element whose
\* key is >= its own, so equal keys keep their original (arrival) order
InsertDesc(sorted, x) ==
    LET p == Cardinality({i \in 1..Len(sorted) : sorted[i].timestamp >= x.timestamp})
    IN  SubSeq(sorted, 1, p) \o <<x>> \o SubSeq(sorted, p + 1, Len(sorted))

\* sorted(seq, key=lambda x: x.timestamp, reverse=True)
RECURSIVE sorted_desc(_)
sorted_desc(seq) ==
    IF seq = <<>> THEN <<>>
    ELSE InsertDesc(sorted_desc(SubSeq(seq, 1, Len(seq) - 1)), seq[Len(seq)])

\* seq[:limit] for limit >= 0
Slice(seq, limit) == SubSeq(seq, 1, Min(limit, Len(seq)))

query_topic(store, topic, limit) == Slice(sorted_desc(topic_messages(store, topic)), limit)

QueryTopicCall(topic, limit) ==
    /\ LoopIdle
    /\ result' = Returned("query_topic", topic,
                          query_topic(messages_store, topic, limit), limit)
    /\ UNCHANGED <<messages_store, queue, held, streams, yielded, nextId, clock,
                   connected, subscribed_topics, broker_subs, inflight,
                   topics_lock, net_task, loop_task, activity>>

----------------------------------------------------------------------------
(* Mutation.clear_topic_messages / Mutation.clear_all_messages *)

\* (a filter that keeps the topic instead of removing it)
only_topic(store, topic) == SelectSeq(store, LAMBDA m : m.topic = topic)

\* [msg for msg in messages_store if msg.topic != topic]
without_topic(store, topic) == SelectSeq(store, LAMBDA m : m.topic # topic)

clear_topic_messages(topic) ==
    /\ LoopIdle
    /\ LET initial_count == Len(messages_store)
           kept == without_topic(messages_store, topic)
           cleared_count == initial_count - Len(kept)
       IN  /\ messages_store' = kept
           /\ result' = Returned("clear_topic_messages", topic, <<>>, cleared_count)
    /\ UNCHANGED <<queue, held, streams, yielded, nextId, clock, connected,
                   subscribed_topics, broker_subs, inflight,
                   topics_lock, net_task, loop_task, activity>>

clear_all_messages ==
    /\ LoopIdle
    /\ LET cleared_count == Len(messages_store)
       IN  /\ messages_store' = <<>>
           /\ result' = Returned("clear_all_messages", "", <<>>, cleared_count)
    /\ UNCHANGED <<queue, held, streams, yielded, nextId, clock, connected,
                   subscribed_topics, broker_subs, inflight,
                   topics_lock, net_task, loop_task, activity>>

----------------------------------------------------------------------------
(* Subscription.subscribe_topic_messages / subscribe_all_topic_messages *)

\* (a loop that keeps running after its stream was cancelled)
ActiveOrCancelled(s) == streams[s].state # "idle"

Active(s) == streams[s].state = "active"

\* streams are numbered in the order in which they are opened
OpensNext(s) ==
    /\ streams[s].state = "idle"
    /\ \A r \in Streams : streams[r].state = "idle" => s <= r

\* a client opens a live stream for one topic
subscribe_topic_messages(s, topic) ==
    /\ LoopIdle
    /\ OpensNext(s)
    /\ streams' = [streams EXCEPT ![s] = [state |-> "active", filter |-> topic]]
    /\ UNCHANGED <<messages_store, queue, held, yielded, nextId, clock, connected,
                   subscribed_topics, broker_subs, inflight, result,
                   topics_lock, net_task, loop_task, activity>>

\* a client opens a live stream for all topics
subscribe_all_topic_messages(s) ==
    /\ LoopIdle
    /\ OpensNext(s)
    /\ streams' = [streams EXCEPT ![s] = [state |-> "active", filter |-> ALL]]
    /\ UNCHANGED <<messages_store, queue, held, yielded, nextId, clock, connected,
                   subscribed_topics, broker_subs, inflight, result,
                   topics_lock, net_task, loop_task, activity>>

\* `message = await wait_for(queue.get(), 1.0)` returns an item
StreamGet(s) ==
    /\ LoopIdle
    /\ Active(s)
    /\ queue # <<>>
    /\ held' = <<[stream |-> s, msg |-> Head(queue)]>>
    /\ queue' = Tail(queue)
    /\ UNCHANGED <<messages_store, streams, yielded, nextId, clock, connected,
                   subscribed_topics, broker_subs, inflight, result,
                   topics_lock, net_task, loop_task, activity>>

\* (a topic loop that yields whatever it dequeues)
WantsAnything(s, m) == TRUE

\* `if message.topic == topic` (the all-topics loop has no test)
Wants(s, m) == streams[s].filter = ALL \/ m.topic = streams[s].filter

\* print(text) raises UnicodeEncodeError: the text has a lone surrogate, which
\* the encoder of stdout refuses
PrintRaises(text) == text = "\\ud800"

\* the rest of the iteration: yield a wanted message, put any other one back
StreamDispatch(s) ==
    /\ held # <<>>
    /\ held[1].stream = s
    /\ ~(Wants(s, held[1].msg) /\ PrintRaises(held[1].msg.content))
    /\ LET message == held[1].msg
       IN  IF Wants(s, message)
           THEN /\ yielded' = [yielded EXCEPT ![s] = Append(@, message)]
                /\ UNCHANGED queue
           ELSE /\ queue' = put_nowait(queue, message)
                /\ UNCHANGED yielded
    /\ held' = <<>>
    /\ UNCHANGED <<messages_store, streams, nextId, clock, connected,
                   subscribed_topics, broker_subs, inflight, result,
                   topics_lock, net_task, loop_task, activity>>

\* the rest of the iteration when the print before the yield (main.py:353,
\* 387) raises: the exception leaves the while loop, `except Exception`
\* (main.py:373-375, 401-403) prints, sleeps a second, and the generator
\* function returns: the stream is over, the message neither yielded nor
\* put back
StreamError(s) ==
    /\ held # <<>>
    /\ held[1].stream = s
    /\ Wants(s, held[1].msg)
    /\ PrintRaises(held[1].msg.content)
    /\ held' = <<>>
    /\ streams' = [streams EXCEPT ![s].state = "ended"]
    /\ UNCHANGED <<messages_store, queue, yielded, nextId, clock, connected,
                   subscribed_topics, broker_subs, inflight, result, topics_lock,
                   net_task, loop_task, activity>>

\* the client closes the stream: CancelledError at the await, re-raised
StreamCancel(s) ==
    /\ LoopIdle
    /\ Active(s)
    /\ streams' = [streams EXCEPT ![s].state = "cancelled"]
    /\ UNCHANGED <<messages_store, queue, held, yielded, nextId, clock, connected,
                   subscribed_topics, broker_subs, inflight, result,
                   topics_lock, net_task, loop_task, activity>>

----------------------------------------------------------------------------
(* The delivery path: producers, the queue and the live streams *)

SendContents == {"up"}
ExternalPayloads == {PlainText("ping")}
ExternalTopics == {"sensors/temperature"}
StreamTopics == {"alerts/system", "test/messages"}

Next ==
    \/ on_connect
    \/ on_disconnect
    \/ \E t \in ExternalTopics, p \in ExternalPayloads : ExternalArrives(t, p)
    \/ EchoArrives
    \/ \E t \in StreamTopics, c \in SendContents, o \in PublishOutcomes :
          send_to_topic(t, c, NoSender, o)
    \/ create_test_data
    \/ \E s \in Streams, t \in StreamTopics : subscribe_topic_messages(s, t)
    \/ \E s \in Streams : subscribe_all_topic_messages(s)
    \/ \E s \in Streams : StreamGet(s)
    \/ \E s \in Streams : StreamDispatch(s)

Spec == Init /\ [][Next]_vars

----------------------------------------------------------------------------
(* Properties of the delivery path *)

\* every Message a stream has yielded or holds
Seen(s) ==
    {yielded[s][k] : k \in 1..Len(yielded[s])}
        \cup {held[k].msg : k \in {j \in 1..Len(held) : held[j].stream = s}}

InQueue(m) == \E k \in 1..Len(queue) : queue[k] = m
InStore(m) == \E k \in 1..Len(messages_store) : messages_store[k] = m
NoStreamOpened == \A s \in Streams : streams[s].state = "idle"

\* C1: the delivery queue never holds more entries than its capacity, whatever
\* the interleaving of broker messages, mutations and subscription iterations.
C1_QueueWithinCapacity == Len(queue) <= QueueCap

\* C1 witness: the queue is full, a stored message was refused by it, and a
\* subscription loop is running.
C1_Witness ==
    /\ Len(queue) = QueueCap
    /\ \E s \in Streams : Active(s)
    /\ \E k \in 1..Len(messages_store) :
          /\ ~InQueue(messages_store[k])
          /\ \A s \in Streams : messages_store[k] \notin Seen(s)

\* C2: no two entries of the message store have the same id.
C2_StoreIdsUnique ==
    \A i, j \in 1..Len(messages_store) :
        i # j => messages_store[i].id # messages_store[j].id

\* C3: a stream opened for one topic has yielded only messages of that topic.
C3_TopicStreamYieldsOnlyItsTopic ==
    \A s \in Streams :
        streams[s].filter # ALL =>
            \A k \in 1..Len(yielded[s]) : yielded[s][k].topic = streams[s].filter

\* C3 witness: two streams for different topics have each yielded a message
\* while a message neither of them wants has gone through the queue.
C3_Witness ==
    /\ Active(1) /\ Active(2)
    /\ streams[1].filter # streams[2].filter
    /\ yielded[1] # <<>> /\ yielded[2] # <<>>
    /\ \E k \in 1..Len(queue) : ~Wants(1, queue[k]) /\ ~Wants(2, queue[k])

\* C6: while no subscription has been opened, the queue holds exactly the
\* first QueueCap messages the producers inserted (the store, which this
\* specification never clears, is the list of insertions in order): later
\* inserts are lost, so a subscription starting now finds only those.
C6_OverflowKeepsFirstN ==
    NoStreamOpened =>
        queue = SubSeq(messages_store, 1, Min(QueueCap, Len(messages_store)))

\* C6 witness: QueueCap + 1 messages were inserted with no subscription open.
C6_Witness ==
    /\ NoStreamOpened
    /\ Len(messages_store) = QueueCap + 1
    /\ Len(queue) = QueueCap

\* C7: a step of on_message or send_to_topic that appends Message m to the
\* store also appends m to the queue when the queue is below capacity and
\* leaves the queue as it is when it is full; the mutation still returns m.
C7_AppendAlsoPushes ==
    [][(/\ Len(messages_store') = Len(messages_store) + 1
        /\ SubSeq(messages_store', 1, Len(messages_store)) = messages_store) =>
          LET m == messages_store'[Len(messages_store')]
          IN  /\ queue' = IF Len(queue) < QueueCap THEN Append(queue, m) ELSE queue
              /\ result' # result => result'.ok /\ result'.msgs = <<m>>]_vars

\* C7 witness: send_to_topic returned a Message that is stored but was
\* refused by the full queue.
C7_Witness ==
    /\ result.op = "send_to_topic" /\ result.ok
    /\ messages_store # <<>>
    /\ messages_store[Len(messages_store)] = result.msgs[1]
    /\ Len(queue) = QueueCap
    /\ ~InQueue(result.msgs[1])
    /\ \A s \in Streams : result.msgs[1] \notin Seen(s)

\* C10: a send_to_topic call fails when the client is not connected and
\* whenever client.publish does not report success (no connection, a
\* rejection, an exception), and a call that fails changes neither the store
\* nor the queue, and hands nothing to the broker.
C10_FailedPublishChangesNothing ==
    [][(result' # result /\ result'.op = "send_to_topic") =>
          /\ ~connected => ~result'.ok
          /\ result'.publish # "success" => ~result'.ok
          /\ ~result'.ok =>
                /\ messages_store' = messages_store
                /\ queue' = queue
                /\ inflight' = inflight]_vars

\* C10 witness: a send the broker rejected failed while the store and the
\* queue held messages.
C10_Witness ==
    /\ result.op = "send_to_topic" /\ ~result.ok
    /\ result.publish = "rejected"
    /\ messages_store # <<>>
    /\ queue # <<>>

----------------------------------------------------------------------------
(* The store operations, applied to every store of up to MaxStore Messages  *)
(* that the producers can build: ids, topics and timestamps come in any     *)
(* order, since a structured payload from another producer carries its own  *)
(* id and timestamp, and a publish echoed by the broker is stored twice.    *)

StoreTopics == {"test/messages", "other"}
StoreIds == {1, 2}
StoreMessages ==
    {Message(i, t, "reading", ts, "device") :
        i \in StoreIds, t \in StoreTopics, ts \in 0..MaxClock}
Stores == UNION {[1..n -> StoreMessages] : n \in 0..MaxStore}
QueryTopics == StoreTopics \cup {"alerts/system"}
QueryLimits == {1, MaxLimit}
AllLimits == 0..MaxLimit

InitStore ==
    /\ messages_store \in Stores
    /\ queue = <<>>
    /\ held = <<>>
    /\ streams = [s \in Streams |-> [state |-> "idle", filter |-> ALL]]
    /\ yielded = [s \in Streams |-> <<>>]
    /\ nextId = 0
    /\ clock = MaxClock
    /\ connected = TRUE
    /\ subscribed_topics = DefaultFilters
    /\ broker_subs = DefaultFilters
    /\ inflight = <<>>
    /\ result = Returned("none", "", <<>>, 0)
    /\ topics_lock = "free"
    /\ net_task = NoTask
    /\ loop_task = NoTask
    /\ activity = NoActivity

NextStore ==
    \/ \E t \in QueryTopics, n \in QueryLimits : QueryTopicCall(t, n)
    \/ \E t \in QueryTopics : clear_topic_messages(t)
    \/ clear_all_messages

SpecStore == InitStore /\ [][NextStore]_vars

\* the number of entries of seq equal to m
Count(seq, m) == Cardinality({i \in 1..Len(seq) : seq[i] = m})
\* the number of stored messages of a topic
CountTopic(store, topic) == Cardinality({i \in 1..Len(store) : store[i].topic = topic})

\* C8: for every topic T and every limit >= the number of stored messages of
\* topic T, query_topic returns each stored message of topic T as many times
\* as it is stored, nothing else, in order of non-increasing timestamp.
C8_QueryTopicExactAndOrdered ==
    \A t \in QueryTopics, limit \in AllLimits :
        limit >= CountTopic(messages_store, t) =>
            LET r == query_topic(messages_store, t, limit)
            IN  /\ Len(r) = CountTopic(messages_store, t)
                /\ \A k \in 1..Len(r) :
                      /\ r[k].topic = t
                      /\ Count(r, r[k]) = Count(messages_store, r[k])
                /\ \A k \in 1..Len(messages_store) :
                      messages_store[k].topic = t => Count(r, messages_store[k]) > 0
                /\ \A k \in 1..(Len(r) - 1) : r[k].timestamp >= r[k + 1].timestamp

\* C8 witness: a query returned two messages of its topic, the later-stamped
\* one first although it was stored first, from a store that also holds a
\* message of another topic.
C8_Witness ==
    /\ result.op = "query_topic"
    /\ result.count >= CountTopic(messages_store, result.topic)
    /\ Len(result.msgs) = 2
    /\ result.msgs[1].timestamp > result.msgs[2].timestamp
    /\ \E i, j, k \in 1..Len(messages_store) :
          /\ i < j
          /\ messages_store[i] = result.msgs[1]
          /\ messages_store[j] = result.msgs[2]
          /\ messages_store[k].topic # result.topic

\* (an insertion that puts x before the elements with an equal key)
InsertDescTiesFirst(sorted, x) ==
    LET p == Cardinality({i \in 1..Len(sorted) : sorted[i].timestamp > x.timestamp})
    IN  SubSeq(sorted, 1, p) \o <<x>> \o SubSeq(sorted, p + 1, Len(sorted))

\* the stored messages of a topic by timestamp descending, messages with equal
\* timestamps in descending arrival order (the later-appended first)
RECURSIVE newest_first(_)
newest_first(seq) ==
    IF seq = <<>> THEN <<>>
    ELSE InsertDescTiesFirst(newest_first(SubSeq(seq, 1, Len(seq) - 1)), seq[Len(seq)])

\* C16: query_topic(T, limit), limit >= 0, returns the first `limit` elements
\* of the stored messages of topic T ordered by timestamp descending, with
\* messages of equal timestamp in descending arrival order (`result` is what
\* the latest call returned; the store has not changed since).
C16_TiesLatestArrivalFirst ==
    result.op = "query_topic" =>
        result.msgs
            = Slice(newest_first(topic_messages(messages_store, result.topic)),
                    result.count)

\* what query_topic does return: equal timestamps keep their arrival order
\* (the earlier-appended first)
C16_TiesEarliestArrivalFirst ==
    \A t \in QueryTopics, limit \in AllLimits :
        LET r == query_topic(messages_store, t, limit)
            all == topic_messages(messages_store, t)
        IN  /\ Len(r) = Min(limit, Len(all))
            /\ \A k \in 1..(Len(r) - 1) : r[k].timestamp >= r[k + 1].timestamp
            /\ \A i, j \in 1..Len(all) :
                  (i < j /\ all[i].timestamp = all[j].timestamp /\ all[i] # all[j]
                     /\ Count(all, all[i]) = 1 /\ Count(all, all[j]) = 1
                     /\ \E k \in 1..Len(r) : r[k] = all[j]) =>
                        \E a, b \in 1..Len(r) : a < b /\ r[a] = all[i] /\ r[b] = all[j]

\* the entries of a store that are not of topic T, as positions
OtherPositions(store, topic) == {i \in 1..Len(store) : store[i].topic # topic}

\* C9: a clear_topic_messages(T) step leaves exactly the stored messages of
\* the other topics, in their original order, and reports the number of
\* messages of topic T the store held; a clear_all_messages step empties the
\* store and reports its previous size.
C9_ClearRemovesExactlyTopic ==
    [][(result' # result \/ Len(messages_store') < Len(messages_store)) =>
          /\ result'.op = "clear_topic_messages" =>
                LET keep == OtherPositions(messages_store, result'.topic)
                IN  /\ Len(messages_store') = Cardinality(keep)
                    /\ \A i \in keep :
                          messages_store'[Cardinality({j \in keep : j <= i})]
                              = messages_store[i]
                    /\ result'.count = CountTopic(messages_store, result'.topic)
          /\ result'.op = "clear_all_messages" =>
                /\ messages_store' = <<>>
                /\ result'.count = Len(messages_store)]_vars

\* C9 witness: a clear of one topic reported two removed messages and left a
\* message of another topic in the store.
C9_Witness ==
    /\ result.op = "clear_topic_messages"
    /\ result.count = 2
    /\ messages_store # <<>>
    /\ \A k \in 1..Len(messages_store) : messages_store[k].topic # result.topic

\* C9 second case: clear_all_messages reported the size of the store it emptied
C9_WitnessAll ==
    /\ result.op = "clear_all_messages"
    /\ result.count = MaxStore
    /\ messages_store = <<>>

----------------------------------------------------------------------------
(* send_to_topic followed by query_topic, on the delivery path (Spec) *)

\* C11: a successful send_to_topic(T, c) with no sender returns a Message with
\* a freshly generated, non-empty id, topic T, content c and sender
\* "graphql_client"; the store holds that Message when the call returns, and
\* query_topic(T, limit) with limit >= the number of stored messages of T
\* then contains it, whether or not the broker echoes the publish.
C11_SendReturnsStoredMessage ==
    [][\A t \in StreamTopics, c \in SendContents :
          send_to_topic(t, c, NoSender, "success") =>
              /\ result'.ok
              /\ Len(result'.msgs) = 1
              /\ LET m == result'.msgs[1]
                 IN  /\ m.id > nextId /\ m.id # 0
                     /\ m.topic = t
                     /\ m.content = c
                     /\ m.sender = "graphql_client"
                     /\ Count(messages_store', m) >= 1
                     /\ \A limit \in CountTopic(messages_store', t)..(MaxStore + 1) :
                           Count(query_topic(messages_store', t, limit), m) >= 1]_vars

\* C11 witness: send_to_topic has returned a Message of a topic the broker
\* echoes, the echo has not arrived yet, and the store already holds the
\* Message next to an older one of the same topic.
C11_Witness ==
    /\ result.op = "send_to_topic" /\ result.ok
    /\ BrokerDelivers(result.topic)
    /\ inflight # <<>>
    /\ inflight[Len(inflight)].payload.id = result.msgs[1].id
    /\ Count(messages_store, result.msgs[1]) = 1
    /\ CountTopic(messages_store, result.topic) >= 2

----------------------------------------------------------------------------
(* The inbound path: payloads of other clients, handled by on_message *)

\* what another client may publish on a topic this client is subscribed to
InboundPayloads ==
    { PlainText("ping"),
      Payload("json", FALSE, FALSE, "[21.5]", "", "", 0, <<>>),
      Payload("object", FALSE, FALSE, "{temp}", "", "", 0, <<>>),
      Payload("object", TRUE, FALSE, "{bad stamp}", "reading", "device", 7, <<>>),
      Payload("bytes", FALSE, FALSE, "\\xff", "", "", 0, <<>>),
      Payload("object", TRUE, FALSE, "{structured}", "reading", "device", 8, <<0>>),
      Payload("object", TRUE, TRUE, "{structured+unit}", "reading", "device", 9, <<0>>) }
InboundTopics == {"sensors/temperature"}

NextInbound ==
    \/ on_connect
    \/ \E t \in InboundTopics, p \in InboundPayloads : ExternalPublishes(t, p)
    \/ EchoArrives

SpecInbound == Init /\ [][NextInbound]_vars

\* a step in which on_message has handled the oldest payload in flight
Handled == inflight # <<>> /\ inflight' = Tail(inflight)

\* the Message on_message is to synthesize for the oldest payload in flight
Synthesized ==
    Message(nextId + 1, Head(inflight).topic, Head(inflight).payload.text, clock,
            "external_client")

\* a JSON object with the keys content, sender, id, timestamp and a timestamp
\* that parses
ValidStructured(p) == p.kind = "object" /\ p.keys /\ IsoParses(p.timestamp)

\* C12: every inbound payload that is not a valid structured message (plain
\* text, JSON that is not an object with the required keys, an object whose
\* timestamp does not parse, bytes that are not UTF-8) makes on_message append
\* exactly one synthesized Message: fresh id, current time, sender
\* "external_client", the raw text as content.
C12_EveryInvalidPayloadIsStored ==
    [][(Handled /\ ~ValidStructured(Head(inflight).payload)) =>
          messages_store' = Append(messages_store, Synthesized)]_vars

\* the part of C12 the handler does satisfy: plain text, JSON that is not an
\* object and an object without the four keys are each stored, synthesized
C12_TextAndOtherJsonAreStored ==
    [][(Handled /\ Head(inflight).payload.kind # "bytes"
                /\ ~Head(inflight).payload.keys) =>
          messages_store' = Append(messages_store, Synthesized)]_vars

\* C20: on_message keeps the id, timestamp and sender of a payload only if it
\* is a JSON object with exactly the keys content, sender, id, timestamp; an
\* object with those four keys and one more is stored as a synthesized
\* external message.
C20_DecodeIsStrict ==
    [][Handled =>
          LET p == Head(inflight).payload
          IN  /\ (p.kind = "object" /\ p.keys /\ p.extra) =>
                    messages_store' = Append(messages_store, Synthesized)
              /\ (/\ Len(messages_store') = Len(messages_store) + 1
                  /\ messages_store'[Len(messages_store')].sender # "external_client")
                    => (p.kind = "object" /\ p.keys /\ ~p.extra)]_vars

----------------------------------------------------------------------------
(* The round trip of a publish: send_to_topic encodes, the broker echoes,   *)
(* on_message decodes, while the clock moves on.                            *)

RoundTripTopics == {"test/messages", "alerts/system"}
RoundTripSenders == {NoSender, "alice"}

NextRoundTrip ==
    \/ on_connect
    \/ on_disconnect
    \/ Tick
    \/ \E t \in RoundTripTopics, c \in SendContents, who \in RoundTripSenders :
          send_to_topic(t, c, who, "success")
    \/ EchoArrives

SpecRoundTrip == Init /\ [][NextRoundTrip]_vars

\* C13: when on_message handles the structured payload that send_to_topic
\* encoded for a Message, it appends a Message with the same content, sender,
\* id and timestamp (and topic) as the one send_to_topic built and stored.
C13_EchoDecodesToOriginal ==
    [][Handled =>
          \E j \in 1..Len(messages_store) :
              /\ messages_store[j].id = Head(inflight).payload.id
              /\ Len(messages_store') = Len(messages_store) + 1
              /\ LET original == messages_store[j]
                     decoded == messages_store'[Len(messages_store')]
                 IN  /\ decoded.content = original.content
                     /\ decoded.sender = original.sender
                     /\ decoded.id = original.id
                     /\ decoded.timestamp = original.timestamp
                     /\ decoded.topic = original.topic]_vars

\* C13 witness: the echo of a Message sent without a sender on a full second
\* has been decoded, after the clock had moved on, into an identical second
\* entry, while the echo of a Message sent with a sender and a timestamp with
\* a sub-second part is on its way.
C13_Witness ==
    /\ \E i, j \in 1..Len(messages_store) :
          /\ i < j
          /\ messages_store[i] = messages_store[j]
          /\ messages_store[i].timestamp % TicksPerSec = 0
          /\ messages_store[i].sender = "graphql_client"
          /\ messages_store[i].timestamp < clock
    /\ Len(inflight) = 1
    /\ Len(inflight[1].payload.timestamp) = 2
    /\ inflight[1].payload.sender = "alice"

----------------------------------------------------------------------------
(* The topic registry and the broker subscriptions, step by step.  The      *)
(* network thread runs on_connect, the event-loop thread runs the           *)
(* subscribe / unsubscribe mutations (and, at startup, lifespan's two       *)
(* subscribe_to_topic calls); a thread switch can come between any two      *)
(* statements, and _topics_lock is the only lock.                           *)

\* client.subscribe / client.unsubscribe raise ValueError for an empty or
\* malformed topic filter instead of returning an error code
InvalidFilter(t) == t = ""

\* (an add that removes a topic that is already there)
add_toggling(S, t) == IF t \in S THEN S \ {t} ELSE S \cup {t}

\* set.add / set.discard
add(S, t) == S \cup {t}
discard(S, t) == S \ {t}

\* list(a_set): the elements, each once, in an order the caller cannot choose
list_of(S) ==
    {seq \in [1..Cardinality(S) -> S] :
        \A i, j \in 1..Cardinality(S) : i # j => seq[i] # seq[j]}

\* the network thread is in no callback, the event-loop thread in no resolver
NetIdle == net_task = NoTask
NoCall == loop_task = NoTask /\ LoopIdle

\* CONNACK with result 0: the client becomes connected and calls on_connect
Connack ==
    /\ NetIdle
    /\ ~connected
    /\ connected' = TRUE
    /\ net_task' = [pc |-> "on_connect"]
    /\ UNCHANGED <<messages_store, queue, held, streams, yielded, nextId, clock,
                   subscribed_topics, broker_subs, inflight, result, topics_lock,
                   loop_task, activity>>

\* on_connect, main.py:65: `with self._topics_lock:` is entered
OnConnectLock ==
    /\ net_task.pc = "on_connect"
    /\ topics_lock = "free"
    /\ topics_lock' = "network"
    /\ net_task' = [pc |-> "snapshot"]
    /\ UNCHANGED <<messages_store, queue, held, streams, yielded, nextId, clock,
                   connected, subscribed_topics, broker_subs, inflight, result,
                   loop_task, activity>>

\* main.py:66: topics_to_subscribe = list(self.subscribed_topics); the lock is
\* released on leaving the with block
OnConnectSnapshot ==
    /\ net_task.pc = "snapshot"
    /\ \E topics_to_subscribe \in list_of(subscribed_topics) :
          net_task' = [pc |-> "subscribing", topics |-> topics_to_subscribe]
    /\ topics_lock' = "free"
    /\ UNCHANGED <<messages_store, queue, held, streams, yielded, nextId, clock,
                   connected, subscribed_topics, broker_subs, inflight, result,
                   loop_task, activity>>

\* main.py:68-69: one iteration of the loop, client.subscribe(topic).  An
\* invalid filter raises: the exception leaves on_connect (nothing catches it)
\* with the rest of the snapshot not subscribed.
OnConnectSubscribe ==
    /\ net_task.pc = "subscribing"
    /\ net_task.topics # <<>>
    /\ LET topic == Head(net_task.topics)
       IN  IF InvalidFilter(topic)
           THEN /\ net_task' = [pc |-> "raised", topics |-> net_task.topics]
                /\ UNCHANGED broker_subs
           ELSE /\ net_task' = [net_task EXCEPT !.topics = Tail(@)]
                /\ broker_subs' = IF connected THEN broker_subs \cup {topic}
                                  ELSE broker_subs
    /\ UNCHANGED <<messages_store, queue, held, streams, yielded, nextId, clock,
                   connected, subscribed_topics, inflight, result, topics_lock,
                   loop_task, activity>>

\* the loop is over: on_connect returns
OnConnectReturn ==
    /\ net_task.pc = "subscribing"
    /\ net_task.topics = <<>>
    /\ net_task' = NoTask
    /\ UNCHANGED <<messages_store, queue, held, streams, yielded, nextId, clock,
                   connected, subscribed_topics, broker_subs, inflight, result,
                   topics_lock, loop_task, activity>>

\* the connection drops while the network thread is in no callback
Disconnects == NetIdle /\ on_disconnect

\* a mutation calls mqtt_handler.subscribe_to_topic(topic) (so does lifespan):
\* main.py:135, `with self._topics_lock:` is entered
subscribe_to_topic(topic) ==
    /\ NoCall
    /\ topics_lock = "free"
    /\ topics_lock' = "loop"
    /\ loop_task' = [pc |-> "registry", op |-> "subscribe_to_topic", topic |-> topic]
    /\ UNCHANGED <<messages_store, queue, held, streams, yielded, nextId, clock,
                   connected, subscribed_topics, broker_subs, inflight, result,
                   net_task, activity>>

\* a mutation calls mqtt_handler.unsubscribe_from_topic(topic): main.py:143
unsubscribe_from_topic(topic) ==
    /\ NoCall
    /\ topics_lock = "free"
    /\ topics_lock' = "loop"
    /\ loop_task' = [pc |-> "registry", op |-> "unsubscribe_from_topic",
                     topic |-> topic]
    /\ UNCHANGED <<messages_store, queue, held, streams, yielded, nextId, clock,
                   connected, subscribed_topics, broker_subs, inflight, result,
                   net_task, activity>>

\* main.py:136 / 144: the registry is updated and the lock released
RegistryUpdate ==
    /\ loop_task.pc = "registry"
    /\ subscribed_topics' =
          IF loop_task.op = "subscribe_to_topic"
          THEN add(subscribed_topics, loop_task.topic)
          ELSE discard(subscribed_topics, loop_task.topic)
    /\ topics_lock' = "free"
    /\ loop_task' = [loop_task EXCEPT !.pc = "is_connected"]
    /\ UNCHANGED <<messages_store, queue, held, streams, yielded, nextId, clock,
                   connected, broker_subs, inflight, result, net_task, activity>>

\* main.py:138 / 146: `if self.client.is_connected():`; if not, the call returns
IsConnectedCheck ==
    /\ loop_task.pc = "is_connected"
    /\ IF connected
       THEN /\ loop_task' = [loop_task EXCEPT !.pc = "broker"]
            /\ UNCHANGED result
       ELSE /\ loop_task' = NoTask
            /\ result' = Returned(loop_task.op, loop_task.topic, <<>>, 0)
    /\ UNCHANGED <<messages_store, queue, held, streams, yielded, nextId, clock,
                   connected, subscribed_topics, broker_subs, inflight, topics_lock,
                   net_task, activity>>

\* main.py:139 / 147: client.subscribe(topic) / client.unsubscribe(topic); an
\* invalid filter raises, a dropped connection makes the client return an
\* error code the caller ignores
BrokerCall ==
    /\ loop_task.pc = "broker"
    /\ IF InvalidFilter(loop_task.topic)
       THEN /\ result' = Raised(loop_task.op, loop_task.topic, "exception")
            /\ UNCHANGED broker_subs
       ELSE /\ result' = Returned(loop_task.op, loop_task.topic, <<>>, 0)
            /\ broker_subs' =
                  IF ~connected THEN broker_subs
                  ELSE IF loop_task.op = "subscribe_to_topic"
                       THEN broker_subs \cup {loop_task.topic}
                       ELSE broker_subs \ {loop_task.topic}
    /\ loop_task' = NoTask
    /\ UNCHANGED <<messages_store, queue, held, streams, yielded, nextId, clock,
                   connected, subscribed_topics, inflight, topics_lock, net_task,
                   activity>>

\* Query.query_subscribed_topics: get_subscribed_topics copies the registry
\* under the lock; `msgs` is the list of topic filters it returns
query_subscribed_topics ==
    /\ NoCall
    /\ topics_lock = "free"
    /\ \E topics \in list_of(subscribed_topics) :
          result' = Returned("query_subscribed_topics", "", topics, Len(topics))
    /\ UNCHANGED <<messages_store, queue, held, streams, yielded, nextId, clock,
                   connected, subscribed_topics, broker_subs, inflight, topics_lock,
                   net_task, loop_task, activity>>

\* the filters the API is called with: a plain topic, a wildcard, an empty string
ApiFilters == {"test/messages", "sensors/+", ""}

\* after connect_to_broker (main.py:441): nothing subscribed yet, CONNACK not in
InitRegistry ==
    /\ messages_store = <<>>
    /\ queue = <<>>
    /\ held = <<>>
    /\ streams = [s \in Streams |-> [state |-> "idle", filter |-> ALL]]
    /\ yielded = [s \in Streams |-> <<>>]
    /\ nextId = 0
    /\ clock = 0
    /\ connected = FALSE
    /\ subscribed_topics = {}
    /\ broker_subs = {}
    /\ inflight = <<>>
    /\ result = Returned("none", "", <<>>, 0)
    /\ topics_lock = "free"
    /\ net_task = NoTask
    /\ loop_task = NoTask
    /\ activity = NoActivity

\* the steps of the two threads, the API being called with `filters`
RegistrySteps(filters) ==
    \/ Connack
    \/ OnConnectLock
    \/ OnConnectSnapshot
    \/ OnConnectSubscribe
    \/ OnConnectReturn
    \/ Disconnects
    \/ \E t \in filters : subscribe_to_topic(t)
    \/ \E t \in filters : unsubscribe_from_topic(t)
    \/ RegistryUpdate
    \/ IsConnectedCheck
    \/ BrokerCall
    \/ query_subscribed_topics

NextRegistry == RegistrySteps(ApiFilters)

SpecRegistry == InitRegistry /\ [][NextRegistry]_vars

\* the same with an API that is only ever called with valid topic filters
NextRegistryValid == RegistrySteps({t \in ApiFilters : ~InvalidFilter(t)})

SpecRegistryValid == InitRegistry /\ [][NextRegistryValid]_vars

\* C14: subscribing is idempotent on the registry.  The registry update of a
\* subscribe_to_topic(T) call leaves exactly one entry for T, whether or not
\* an earlier call had put T there, and changes no other entry, in any
\* connection state and with calls for other topics in between; and
\* query_subscribed_topics lists every topic of the registry exactly once.
C14_SubscribeIsIdempotent ==
    [][/\ (/\ loop_task.pc = "registry"
           /\ loop_task.op = "subscribe_to_topic"
           /\ loop_task'.pc = "is_connected") =>
              /\ loop_task.topic \in subscribed_topics'
              /\ Cardinality(subscribed_topics') =
                    Cardinality(subscribed_topics \ {loop_task.topic}) + 1
              /\ \A t \in ApiFilters \ {loop_task.topic} :
                    (t \in subscribed_topics') = (t \in subscribed_topics)
       /\ (result' # result /\ result'.op = "query_subscribed_topics") =>
              \A t \in ApiFilters :
                  Count(result'.msgs, t) = IF t \in subscribed_topics THEN 1 ELSE 0
      ]_vars

\* C14 witness: a subscribe_to_topic(T) call has just updated the registry
\* right after an earlier subscribe_to_topic(T) returned: T is at the broker
\* from the first call, and the registry holds T and another topic.
C14_Witness ==
    /\ loop_task.pc = "is_connected"
    /\ loop_task.op = "subscribe_to_topic"
    /\ result.op = "subscribe_to_topic" /\ result.ok
    /\ result.topic = loop_task.topic
    /\ loop_task.topic \in broker_subs
    /\ loop_task.topic \in subscribed_topics
    /\ Cardinality(subscribed_topics) = 2

\* C18: every on_connect run issues a broker subscribe for every topic of the
\* snapshot it took of the registry (it ends only when none is left), and
\* _topics_lock is not held while it makes those calls.
C18_ConnectSubscribesSnapshot ==
    [][/\ (net_task.pc = "subscribing" /\ net_task'.pc # "subscribing") =>
              net_task.topics = <<>>
       /\ net_task.pc = "subscribing" => topics_lock # "network"]_vars

\* the lock half of C18 alone
C18_LockFreeDuringBrokerCalls ==
    [][net_task.pc = "subscribing" => topics_lock # "network"]_vars

\* C19: subscribe_to_topic / unsubscribe_from_topic have updated the registry
\* when they reach the broker call, and reach it only if the client was
\* connected at the check; and whenever the client is connected, on_connect
\* has ended and no call is in progress, every valid topic of the registry
\* is subscribed at the broker, however the subscribe call and the
\* connection event were interleaved.
C19_RegistryFirstThenBroker ==
    /\ loop_task.pc = "broker" =>
          (loop_task.topic \in subscribed_topics)
              = (loop_task.op = "subscribe_to_topic")
    /\ (connected /\ net_task.pc \in {"idle", "raised"} /\ NoCall) =>
          \A t \in subscribed_topics : ~InvalidFilter(t) => t \in broker_subs

\* the first half of C19 alone, with the connection check as a step property
C19_UpdateBeforeBrokerCall ==
    [][/\ loop_task'.pc = "broker" =>
              (loop_task'.topic \in subscribed_topics')
                  = (loop_task'.op = "subscribe_to_topic")
       /\ (loop_task.pc = "is_connected" /\ loop_task'.pc = "broker") => connected
       /\ (loop_task.pc = "is_connected" /\ loop_task' = NoTask) => ~connected
       /\ broker_subs' # broker_subs => connected]_vars

----------------------------------------------------------------------------
(* Delivery under fair scheduling.  The streams are opened before the first *)
(* message is produced.  The event loop runs every ready subscription task  *)
(* again and again (strong fairness of each task's queue.get()), a started  *)
(* iteration runs to its yield or put_nowait, and the network thread        *)
(* delivers what the broker has sent.                                       *)

NothingProduced == messages_store = <<>> /\ nextId = 0

NextFair ==
    \/ on_connect
    \/ \E s \in Streams, t \in StreamTopics :
          NothingProduced /\ subscribe_topic_messages(s, t)
    \/ \E s \in Streams : NothingProduced /\ subscribe_all_topic_messages(s)
    \/ \E t \in StreamTopics, c \in SendContents :
          send_to_topic(t, c, NoSender, "success")
    \/ EchoArrives
    \/ \E s \in Streams : StreamGet(s)
    \/ \E s \in Streams : StreamDispatch(s)
    \/ \E s \in Streams : StreamCancel(s)

FairSpec ==
    /\ Init
    /\ [][NextFair]_vars
    /\ \A s \in Streams : SF_vars(StreamGet(s)) /\ WF_vars(StreamDispatch(s))
    /\ WF_vars(EchoArrives)

\* the Messages send_to_topic can build in this specification
SentMessages ==
    {Message(i, t, c, 0, "graphql_client") :
        i \in 1..MaxIds, t \in StreamTopics, c \in SendContents}

HasYieldedContent(s, c) == \E k \in 1..Len(yielded[s]) : yielded[s][k].content = c
HasYielded(s, m) == \E k \in 1..Len(yielded[s]) : yielded[s][k] = m

\* every other opened stream is a stream for one topic, another one than s's
OthersAreOtherTopics(s) ==
    \A r \in Streams \ {s} :
        streams[r].state = "idle"
            \/ (streams[r].filter # ALL /\ streams[r].filter # streams[s].filter)

\* send_to_topic has just returned m, which the queue accepted, while stream s
\* was open for m's topic and the broker does not echo the topic
JustSentTo(s, m) ==
    /\ result.op = "send_to_topic" /\ result.ok /\ result.msgs = <<m>>
    /\ queue # <<>> /\ queue[Len(queue)] = m
    /\ Active(s) /\ streams[s].filter = m.topic
    /\ ~BrokerDelivers(m.topic)
    /\ OthersAreOtherTopics(s)

\* C4: once send_to_topic(T, c) has succeeded with the queue below capacity
\* while a stream for T is open, and the only other open streams are streams
\* for other topics, the stream for T eventually yields a message with
\* content c (unless it is cancelled first).
C4_SentIsEventuallyYielded ==
    \A s \in Streams, m \in SentMessages :
        JustSentTo(s, m) ~> (HasYieldedContent(s, m.content) \/ ~Active(s))

\* the same with one more way out, the message having left the queue and the
\* loops for good (dropped by a full queue): what is left to violate it is a
\* message that stays queued for ever while the stream for its topic runs
C4_YieldedUnlessDropped ==
    \A s \in Streams, m \in SentMessages :
        JustSentTo(s, m) ~>
            \/ HasYieldedContent(s, m.content)
            \/ ~Active(s)
            \/ (~InQueue(m) /\ \A k \in 1..Len(held) : held[k].msg # m)

\* C5: a message in the queue that two open streams both want is eventually
\* yielded by each of the two (unless one of them is cancelled first).
C5_EveryWantingStreamYields ==
    \A m \in SentMessages :
        (Active(1) /\ Active(2) /\ Wants(1, m) /\ Wants(2, m) /\ InQueue(m))
            ~> ((HasYielded(1, m) /\ HasYielded(2, m)) \/ ~Active(1) \/ ~Active(2))

\* C15: cancelling a live stream is terminal.  From the cancellation on, the
\* stream yields nothing more, takes nothing from the queue, pushes nothing
\* back and never becomes active again: the CancelledError leaves the
\* generator instead of being handled as an error of the loop.
C15_CancelIsTerminal ==
    [][\A s \in Streams :
          streams[s].state = "cancelled" =>
              /\ streams'[s].state = "cancelled"
              /\ yielded'[s] = yielded[s]
              /\ \A k \in 1..Len(held) : held[k].stream # s
              /\ \A k \in 1..Len(held') : held'[k].stream # s]_vars

\* C15 witness: a stream was cancelled after it had yielded a message, the
\* queue holds a message it would have wanted, and the other stream has gone
\* on to yield a message.
C15_Witness ==
    /\ streams[1].state = "cancelled"
    /\ yielded[1] # <<>>
    /\ \E k \in 1..Len(queue) : Wants(1, queue[k])
    /\ Active(2)
    /\ yielded[2] # <<>>
    /\ yielded[2][Len(yielded[2])].id > yielded[1][Len(yielded[1])].id

----------------------------------------------------------------------------
(* clear_topic_messages statement by statement, with the network thread     *)
(* appending in between.  Nothing guards messages_store: on_message appends *)
(* to whatever list the global names at that moment, the comprehension      *)
(* iterates over the old list while it can still grow, and the assignment   *)
(* replaces the old list by the new one.                                    *)

\* main.py:284: initial_count = len(messages_store)
ClearTopicStart(topic) ==
    /\ NoCall
    /\ loop_task' = [pc |-> "scan", op |-> "clear_topic_messages", topic |-> topic,
                     initial_count |-> Len(messages_store), scanned |-> 0,
                     kept |-> <<>>, removed |-> 0]
    /\ UNCHANGED <<messages_store, queue, held, streams, yielded, nextId, clock,
                   connected, subscribed_topics, broker_subs, inflight, result,
                   topics_lock, net_task, activity>>

\* main.py:285, one step of the comprehension's iterator: the next element of
\* the list, if it has one by now, else the iteration is over
ClearTopicScan ==
    /\ loop_task.pc = "scan"
    /\ IF loop_task.scanned < Len(messages_store)
       THEN LET msg == messages_store[loop_task.scanned + 1]
            IN  loop_task' =
                  [loop_task EXCEPT
                     !.scanned = @ + 1,
                     !.kept = IF msg.topic # loop_task.topic THEN Append(@, msg) ELSE @]
       ELSE loop_task' = [loop_task EXCEPT !.pc = "assign"]
    /\ UNCHANGED <<messages_store, queue, held, streams, yielded, nextId, clock,
                   connected, subscribed_topics, broker_subs, inflight, result,
                   topics_lock, net_task, activity>>

\* main.py:285: messages_store = <the new list>; `removed` notes, for the
\* properties, how many entries the list that is replaced has more
ClearTopicAssign ==
    /\ loop_task.pc = "assign"
    /\ messages_store' = loop_task.kept
    /\ loop_task' = [loop_task EXCEPT
                       !.pc = "return",
                       !.removed = Len(messages_store) - Len(loop_task.kept)]
    /\ UNCHANGED <<queue, held, streams, yielded, nextId, clock, connected,
                   subscribed_topics, broker_subs, inflight, result, topics_lock,
                   net_task, activity>>

\* main.py:286-287: cleared_count = initial_count - len(messages_store); return
ClearTopicReturn ==
    /\ loop_task.pc = "return"
    /\ LET cleared_count == loop_task.initial_count - Len(messages_store)
       IN  result' = Returned("clear_topic_messages", loop_task.topic, <<>>,
                              cleared_count)
    /\ loop_task' = NoTask
    /\ UNCHANGED <<messages_store, queue, held, streams, yielded, nextId, clock,
                   connected, subscribed_topics, broker_subs, inflight, topics_lock,
                   net_task, activity>>

RaceTopics == {"test/messages", "sensors/temperature"}

NextRace ==
    \/ on_connect
    \/ \E t \in RaceTopics, p \in ExternalPayloads : ExternalArrives(t, p)
    \/ \E t \in RaceTopics : ClearTopicStart(t)
    \/ ClearTopicScan
    \/ ClearTopicAssign
    \/ ClearTopicReturn

SpecRace == Init /\ [][NextRace]_vars

\* C17: appends and clears are atomic with respect to each other.  When
\* clear_topic_messages(T) replaces the store, every message of another topic
\* that has been appended by then, also during the call, is in the new store;
\* and the count the call reports is the number of messages it removed.
C17_ClearAndAppendAreAtomic ==
    [][/\ (loop_task.pc = "assign" /\ loop_task'.pc = "return") =>
              \A k \in 1..Len(messages_store) :
                  messages_store[k].topic # loop_task.topic =>
                      Count(messages_store', messages_store[k]) >= 1
       /\ (loop_task.pc = "return" /\ loop_task' = NoTask) =>
              result'.count = loop_task.removed]_vars

\* the first half of C17 alone: no message of another topic is lost
C17_NoAppendIsLost ==
    [][(loop_task.pc = "assign" /\ loop_task'.pc = "return") =>
          \A k \in 1..Len(messages_store) :
              messages_store[k].topic # loop_task.topic =>
                  Count(messages_store', messages_store[k]) >= 1]_vars

\* the second half of C17 alone: the reported count is the number removed
C17_CountIsNumberRemoved ==
    [][(loop_task.pc = "return" /\ loop_task' = NoTask) =>
          result'.count = loop_task.removed]_vars

----------------------------------------------------------------------------
(* A live stream and a message whose content cannot be printed *)

ErrorContents == {"up", "\\ud800"}

NextError ==
    \/ on_connect
    \/ \E t \in StreamTopics, c \in ErrorContents :
          send_to_topic(t, c, NoSender, "success")
    \/ EchoArrives
    \/ \E s \in Streams, t \in StreamTopics : subscribe_topic_messages(s, t)
    \/ \E s \in Streams : subscribe_all_topic_messages(s)
    \/ \E s \in Streams : StreamGet(s)
    \/ \E s \in Streams : StreamDispatch(s)
    \/ \E s \in Streams : StreamError(s)
    \/ \E s \in Streams : StreamCancel(s)

SpecError == Init /\ [][NextError]_vars

\* C21: an exception other than a cancellation raised inside the polling loop
\* of a live stream is swallowed and the stream is active again afterwards: a
\* stream stops being active only by being cancelled.
C21_ErrorKeepsStreamActive ==
    [][\A s \in Streams :
          Active(s) => (streams'[s].state \in {"active", "cancelled"})]_vars

----------------------------------------------------------------------------
(* Subscription.subscribe_topic_activity *)

\* `set(msg.topic for msg in messages_store)`
TopicsOf(store) == {store[k].topic : k \in 1..Len(store)}

\* (a comparison that forgets the previous sample)
new_topics_undiffed(current_topics, last_topics) == current_topics

\* `new_topics = current_topics - last_topics`
new_topics(current_topics, last_topics) == current_topics \ last_topics

ActivityLive == activity.state \in {"sleeping", "yielding"}

\* the generator starts: `last_topics = set()`, then it sleeps.  `yielded` is
\* what the consumer has received, `base` its length at the latest sample.
subscribe_topic_activity ==
    /\ activity.state = "idle"
    /\ activity' = [state |-> "sleeping", last_topics |-> {}, current_topics |-> {},
                    pending |-> <<>>, yielded |-> <<>>, base |-> 0]
    /\ UNCHANGED <<messages_store, queue, held, streams, yielded, nextId, clock,
                   connected, subscribed_topics, broker_subs, inflight, result,
                   topics_lock, net_task, loop_task>>

\* sleep(2) is over: the sample, the difference and, when it is not empty, the
\* run up to the first yield (the loop visits the new topics in some order);
\* with nothing new the sample becomes the previous one and the sleep restarts
ActivitySample ==
    /\ activity.state = "sleeping"
    /\ LET current_topics == TopicsOf(messages_store)
           new == new_topics(current_topics, activity.last_topics)
       IN  IF new # {}
           THEN \E order \in list_of(new) :
                   activity' = [activity EXCEPT
                                   !.state = "yielding",
                                   !.current_topics = current_topics,
                                   !.base = Len(activity.yielded),
                                   !.yielded = Append(@, order[1]),
                                   !.pending = Tail(order)]
           ELSE activity' = [activity EXCEPT
                                !.current_topics = current_topics,
                                !.base = Len(activity.yielded),
                                !.last_topics = current_topics]
    /\ UNCHANGED <<messages_store, queue, held, streams, yielded, nextId, clock,
                   connected, subscribed_topics, broker_subs, inflight, result,
                   topics_lock, net_task, loop_task>>

\* the consumer asks for the next item: the loop yields the next new topic, or,
\* the loop over, `last_topics = current_topics` and the sleep restarts
ActivityNext ==
    /\ activity.state = "yielding"
    /\ IF activity.pending # <<>>
       THEN activity' = [activity EXCEPT
                            !.yielded = Append(@, activity.pending[1]),
                            !.pending = Tail(@)]
       ELSE activity' = [activity EXCEPT
                            !.state = "sleeping",
                            !.last_topics = activity.current_topics]
    /\ UNCHANGED <<messages_store, queue, held, streams, yielded, nextId, clock,
                   connected, subscribed_topics, broker_subs, inflight, result,
                   topics_lock, net_task, loop_task>>

\* the client goes away: CancelledError at the sleep or at the yield, re-raised
ActivityCancel ==
    /\ ActivityLive
    /\ activity' = [activity EXCEPT !.state = "cancelled"]
    /\ UNCHANGED <<messages_store, queue, held, streams, yielded, nextId, clock,
                   connected, subscribed_topics, broker_subs, inflight, result,
                   topics_lock, net_task, loop_task>>

ActivityTopics == {"alerts/system", "sensors/temperature"}

NextActivity ==
    \/ on_connect
    \/ \E p \in ExternalPayloads : ExternalArrives("sensors/temperature", p)
    \/ send_to_topic("alerts/system", "up", NoSender, "success")
    \/ \E t \in ActivityTopics : clear_topic_messages(t)
    \/ subscribe_topic_activity
    \/ ActivitySample
    \/ ActivityNext
    \/ ActivityCancel

SpecActivity == Init /\ [][NextActivity]_vars

\* the notifications of the round in progress, yielded and still to come
RoundOf(a) == SubSeq(a.yielded, a.base + 1, Len(a.yielded)) \o a.pending

\* `seq` lists every element of S exactly once and nothing else
Enumerates(seq, S) ==
    /\ Len(seq) = Cardinality(S)
    /\ {seq[k] : k \in 1..Len(seq)} = S

\* C22: at each sample the activity stream takes the distinct topics of the
\* store; the notifications of that round are one for each topic of the sample
\* that was not in the previous sample and none for any other topic; nothing is
\* yielded outside a round; when the round is over the sample becomes the
\* previous one; the stream leaves its loop only by being cancelled.
C22_ActivityNotifiesNewTopicsOnce ==
    [][(ActivityLive /\ activity' # activity) =>
          /\ activity'.state \in {"sleeping", "yielding", "cancelled"}
          /\ (activity.state = "sleeping" /\ activity'.state # "cancelled") =>
                /\ activity'.current_topics = TopicsOf(messages_store)
                /\ Enumerates(RoundOf(activity'),
                              TopicsOf(messages_store) \ activity.last_topics)
                /\ activity'.state = "sleeping" =>
                      /\ activity'.last_topics = TopicsOf(messages_store)
                      /\ activity'.yielded = activity.yielded
          /\ (activity.state = "yielding" /\ activity'.state = "yielding") =>
                /\ activity'.current_topics = activity.current_topics
                /\ activity'.last_topics = activity.last_topics
                /\ activity'.base = activity.base
                /\ Len(activity'.yielded) = Len(activity.yielded) + 1
                /\ Enumerates(RoundOf(activity'),
                              activity.current_topics \ activity.last_topics)
          /\ (activity.state = "yielding" /\ activity'.state = "sleeping") =>
                /\ Enumerates(SubSeq(activity.yielded, activity.base + 1,
                                     Len(activity.yielded)),
                              activity.current_topics \ activity.last_topics)
                /\ activity'.yielded = activity.yielded
                /\ activity'.last_topics = activity.current_topics
      ]_vars

\* a topic was cleared from the store and came back: after one round with both
\* topics new, the returning topic has been notified a second time
C22_Witness ==
    /\ activity.state = "sleeping"
    /\ Len(activity.yielded) = 3
    /\ activity.base = 2
    /\ \E t \in ActivityTopics :
          /\ activity.yielded[1] # activity.yielded[2]
          /\ activity.yielded[3] = t
          /\ activity.last_topics = {t}

----------------------------------------------------------------------------
(* The queue shared by topic streams: order and unconsumed messages *)

OrderTopics == {"sensors/temperature", "alerts/system"}

NextOrder ==
    \/ on_connect
    \/ \E p \in ExternalPayloads : ExternalArrives("sensors/temperature", p)
    \/ send_to_topic("alerts/system", "up", NoSender, "success")
    \/ \E s \in Streams, t \in OrderTopics : subscribe_topic_messages(s, t)
    \/ \E s \in Streams : subscribe_all_topic_messages(s)
    \/ \E s \in Streams : StreamGet(s)
    \/ \E s \in Streams : StreamDispatch(s)
    \/ \E s \in Streams : StreamCancel(s)

SpecOrder == Init /\ [][NextOrder]_vars

\* where the handler that created `m` appended it to the store; the same
\* handler enqueues it right after, so this is also the order of enqueueing
PositionInStore(m) == CHOOSE k \in 1..Len(messages_store) : messages_store[k] = m

InEnqueueOrder(seq) ==
    \A i, j \in 1..Len(seq) :
        i < j => PositionInStore(seq[i]) < PositionInStore(seq[j])

C23_OrderWithAnyStreams ==
    \A s \in Streams :
        (streams[s].state # "idle" /\ streams[s].filter # ALL) =>
            InEnqueueOrder(yielded[s])

----------------------------------------------------------------------------
(* The registry and the broker's subscriptions, between the handlers *)

\* C24: whenever the client is connected and neither on_connect nor a
\* subscribe or unsubscribe call is in progress, the topics subscribed at the
\* broker are exactly the topics of the registry.
C24_BrokerMatchesRegistryAtRest ==
    (connected /\ NetIdle /\ NoCall) => broker_subs = subscribed_topics

\* C24, the case it names: a topic unsubscribed while on_connect resubscribes
\* is not left subscribed at the broker and absent from the registry
C24_NoTopicLeftAtBroker ==
    (connected /\ NetIdle /\ NoCall) => broker_subs \subseteq subscribed_topics

----------------------------------------------------------------------------
(* Messages no open stream consumes *)

\* no active stream yields `m`: every active stream is a topic stream for
\* another topic
Unwanted(m) == \A s \in Streams : Active(s) => ~Wants(s, m)

Queued == {queue[k] : k \in 1..Len(queue)}
Held == {held[k].msg : k \in 1..Len(held)}
YieldedBy(s) == {yielded[s][k] : k \in 1..Len(yielded[s])}

\* a producer ran: on_message or send_to_topic appended to the store and then
\* called put_nowait
Inserts == messages_store' # messages_store

\* C25 as stated: a queued message no active stream matches never leaves the
\* queue (a stream that dequeued it puts it back); while every queued message
\* is such a message the number of messages never decreases; and once such
\* messages fill the queue, no later insert gets in.
C25_UnwantedNeverLeaves ==
    [][/\ \A m \in Queued \cup Held :
             Unwanted(m) => m \in Queued' \cup Held'
       /\ (\A m \in Queued \cup Held : Unwanted(m)) =>
             /\ Len(queue') + Len(held') >= Len(queue) + Len(held)
             /\ (Len(queue) + Len(held) >= QueueCap /\ Inserts) =>
                   Queued' \cup Held' = Queued \cup Held
      ]_vars

\* C25, amended: a queued message no active stream matches is never yielded,
\* and it leaves the queue only when the stream that dequeued it finds the
\* queue full on putting it back; while every queued message is such a
\* message their number, counting one a stream is about to put back, never
\* decreases except from one above capacity to capacity; an insert that finds
\* the queue itself at capacity is dropped.
C25_UnwantedLeavesOnlyByFullRepush ==
    [][/\ \A m \in Queued \cup Held :
             Unwanted(m) =>
                /\ \A s \in Streams : m \in YieldedBy(s)' => m \in YieldedBy(s)
                /\ m \notin Queued' \cup Held' =>
                      /\ m \in Held
                      /\ Len(queue) = QueueCap
                      /\ queue' = queue
       /\ (\A m \in Queued \cup Held : Unwanted(m)) =>
             Len(queue') + Len(held') >= Min(Len(queue) + Len(held), QueueCap)
       /\ (Len(queue) = QueueCap /\ Inserts) => queue' = queue
      ]_vars

\* the queue is full of messages of a topic no stream is open for, a stream
\* has put the older one back behind the newer one, and a later message, of
\* the topic the active stream is open for, was dropped on insert
C25_Witness ==
    /\ Active(1)
    /\ streams[1].filter = "sensors/temperature"
    /\ streams[2].state = "idle"
    /\ held = <<>>
    /\ Len(queue) = QueueCap
    /\ \A m \in Queued : Unwanted(m)
    /\ PositionInStore(queue[1]) > PositionInStore(queue[Len(queue)])
    /\ \E k \in 1..Len(messages_store) :
          /\ Wants(1, messages_store[k])
          /\ \A m \in Queued : PositionInStore(m) < k
          /\ messages_store[k] \notin Queued \cup YieldedBy(1)

====
